---- MODULE Spec2Model ----
(***************************************************************************)
(* A model of the reconciliation core of the rollout controller            *)
(* (rollout/context.go): the dispatcher reconcile, the pause query         *)
(* haltProgress, the analysis-run propagator SetCurrentAnalysisRuns, the   *)
(* final-status patch generator and writer, and the rollback-window        *)
(* evaluator described in docs/features/rollback.md.                       *)
(*                                                                         *)
(* Handlers are operators over a context record c (the rolloutContext) and *)
(* return the context they leave behind; an action applies one handler     *)
(* whole.  Each component has its own specification (SpecDispatch,         *)
(* SpecAnalysis, SpecPatch, SpecRollback); the variables a specification   *)
(* does not use stay at Unused.                                            *)
(***************************************************************************)
EXTENDS Integers, Sequences, FiniteSets, TLC

VARIABLES
    rollout,    \* the Rollout object (spec and persisted status)
    pass,       \* what the last reconcile pass did (phases run, error, status)
    ars,        \* analysis: the context of the pass being propagated
    store,      \* the external store's replica sets, by name
    informer,   \* the local mirror (informer indexer) of the replica sets
    rsctx,      \* patch: the pass context (newRS snapshot, last call's result)
    rb,         \* rollback window: the evaluator's inputs and its verdict
    exs,        \* experiments: the listed experiments and the pass context
    rsets       \* classifier: the replica sets listed and their classification

vars == <<rollout, pass, ars, store, informer, rsctx, rb, exs, rsets>>

Unused == "unused"
Nil == "nil"
NoErr == ""

\* ------------------------------------------------------------------ bounds
MaxReplicas == 2
MaxSteps == 1
MaxHistory == 5
MaxWindow == 3

\* ------------------------------------------------------- helper operators
Range(s) == {s[i] : i \in 1..Len(s)}

RemoveAll(s, S) == SelectSeq(s, LAMBDA x : x \notin S)

AppendNew(s, x) == IF x \in Range(s) THEN s ELSE Append(s, x)

\* ---------------------------------------------------------- pause reasons
PauseReasonInconclusiveAnalysis == "InconclusiveAnalysisRun"
PauseReasonCanaryPauseStep == "CanaryPauseStep"
PauseReasonBlueGreenPause == "BlueGreenPause"

PauseReasons ==
    {PauseReasonInconclusiveAnalysis, PauseReasonCanaryPauseStep,
     PauseReasonBlueGreenPause}

\* getPauseCondition(ro, reason): the first pause condition of the rollout's
\* status with that reason, or Nil.
getPauseCondition(ro, reason) ==
    IF \E i \in 1..Len(ro.status.pauseConditions) :
           ro.status.pauseConditions[i] = reason
    THEN reason
    ELSE Nil

\* ------------------------------------------------------------ haltProgress
\* A variant with a slip: the two tests in the other order.
haltProgress_InconclusiveFirst(c) ==
    IF getPauseCondition(c.rollout, PauseReasonInconclusiveAnalysis) # Nil
    THEN "inconclusive analysis"
    ELSE IF c.rollout.paused THEN "user paused" ELSE ""

\* A variant with a slip: any active pause condition halts.
haltProgress_AnyCondition(c) ==
    IF c.rollout.paused
    THEN "user paused"
    ELSE IF Len(c.rollout.status.pauseConditions) > 0
         THEN "inconclusive analysis"
         ELSE ""

haltProgress(c) ==
    IF c.rollout.paused
    THEN "user paused"
    ELSE IF getPauseCondition(c.rollout, PauseReasonInconclusiveAnalysis) # Nil
         THEN "inconclusive analysis"
         ELSE ""

\* ------------------------------------------------- SetCurrentAnalysisRuns
\* The status sub-field written for a current analysis run.
RolloutAnalysisRunStatus(ar) ==
    [name |-> ar.name, status |-> ar.phase, message |-> ar.message]

\* The nil *AnalysisRun and the nil *RolloutAnalysisRunStatus.
NilAr == [name |-> Nil, phase |-> Nil, message |-> Nil]
NilArStatus == [name |-> Nil, status |-> Nil, message |-> Nil]

NoCurrentArs ==
    [CanaryBackground |-> NilAr, CanaryStep |-> NilAr,
     BlueGreenPrePromotion |-> NilAr, BlueGreenPostPromotion |-> NilAr]

\* A variant with a slip: a slot without a run clears its status sub-field.
SetCurrentAnalysisRuns_ClearAbsent(c, currARs) ==
    LET c0 == [c EXCEPT !.currentArs = currARs]
        st == c0.newStatus
    IN  IF c.rollout.canary
        THEN [c0 EXCEPT !.newStatus =
                [st EXCEPT
                    !.canaryBackground =
                        IF currARs.CanaryBackground # NilAr
                        THEN RolloutAnalysisRunStatus(currARs.CanaryBackground)
                        ELSE NilArStatus,
                    !.canaryStep =
                        IF currARs.CanaryStep # NilAr
                        THEN RolloutAnalysisRunStatus(currARs.CanaryStep)
                        ELSE NilArStatus]]
        ELSE IF c.rollout.blueGreen
        THEN [c0 EXCEPT !.newStatus =
                [st EXCEPT
                    !.prePromotion =
                        IF currARs.BlueGreenPrePromotion # NilAr
                        THEN RolloutAnalysisRunStatus(currARs.BlueGreenPrePromotion)
                        ELSE NilArStatus,
                    !.postPromotion =
                        IF currARs.BlueGreenPostPromotion # NilAr
                        THEN RolloutAnalysisRunStatus(currARs.BlueGreenPostPromotion)
                        ELSE NilArStatus]]
        ELSE c0

SetCurrentAnalysisRuns(c, currARs) ==
    LET c0 == [c EXCEPT !.currentArs = currARs]
        st == c0.newStatus
    IN  IF c.rollout.canary
        THEN LET s1 == IF currARs.CanaryBackground # NilAr
                       THEN [st EXCEPT !.canaryBackground =
                                RolloutAnalysisRunStatus(currARs.CanaryBackground)]
                       ELSE st
                 s2 == IF currARs.CanaryStep # NilAr
                       THEN [s1 EXCEPT !.canaryStep =
                                RolloutAnalysisRunStatus(currARs.CanaryStep)]
                       ELSE s1
             IN  [c0 EXCEPT !.newStatus = s2]
        ELSE IF c.rollout.blueGreen
        THEN LET s1 == IF currARs.BlueGreenPrePromotion # NilAr
                       THEN [st EXCEPT !.prePromotion =
                                RolloutAnalysisRunStatus(currARs.BlueGreenPrePromotion)]
                       ELSE st
                 s2 == IF currARs.BlueGreenPostPromotion # NilAr
                       THEN [s1 EXCEPT !.postPromotion =
                                RolloutAnalysisRunStatus(currARs.BlueGreenPostPromotion)]
                       ELSE s1
             IN  [c0 EXCEPT !.newStatus = s2]
        ELSE c0

\* ------------------------------------------------------------ the context
\* The rolloutContext of one pass: the rollout as read, the working status
\* (built from the rollout's status), the analysis runs, and a record of the
\* phases the pass has run so far.
NewContext(ro) ==
    [rollout |-> ro, newStatus |-> ro.status, currentArs |-> NoCurrentArs,
     otherArs |-> <<>>, phases |-> <<>>, halt |-> Nil]

Ran(c, phase) == [c EXCEPT !.phases = Append(@, phase)]

\* --------------------------------------------------- the dispatcher's phases
\* Phase 1.  Evaluates the pause conditions; clears the ones whose trigger
\* has resolved (in.resolved); an internal store error aborts the pass.
checkPausedConditions(c, in) ==
    LET c1 == Ran(c, "checkPausedConditions")
    IN  IF in.pauseErr
        THEN [c |-> c1, err |-> "checkPausedConditions error"]
        ELSE [c |-> [c1 EXCEPT !.newStatus.pauseConditions =
                                   RemoveAll(@, in.resolved)],
              err |-> NoErr]

\* Phase 2.  True iff the only delta against the observed topology is the
\* replica count (no template change).
isScalingEvent(c, in) ==
    LET c1 == Ran(c, "isScalingEvent")
    IN  IF in.scalingErr
        THEN [c |-> c1, val |-> FALSE, err |-> "isScalingEvent error"]
        ELSE [c |-> c1,
              val |-> c.rollout.replicas # c.rollout.status.replicas
                      /\ ~in.templateChanged,
              err |-> NoErr]

\* The Scaling Synchronizer: scales to the spec's replica count, nothing else.
syncReplicasOnly(c, in) ==
    LET c1 == Ran(c, "syncReplicasOnly")
    IN  IF in.branchErr
        THEN [c |-> c1, err |-> "syncReplicasOnly error"]
        ELSE [c |-> [c1 EXCEPT !.newStatus.replicas = c.rollout.replicas],
              err |-> NoErr]

\* The canary branch (entry contract): propagates the current analysis runs,
\* asks haltProgress, and unless halted advances a step or enters a pausing
\* step; an inconclusive step run adds the inconclusive-analysis reason.
rolloutCanary(c, in) ==
    LET c1 == Ran(c, "rolloutCanary")
        c2 == SetCurrentAnalysisRuns(c1, [NoCurrentArs EXCEPT !.CanaryStep = in.ar])
        c3 == [c2 EXCEPT !.halt = haltProgress(c2)]
        inconclusive == in.ar # NilAr /\ in.ar.phase = "Inconclusive"
        c4 == IF inconclusive
              THEN [c3 EXCEPT !.newStatus.pauseConditions =
                                 AppendNew(@, PauseReasonInconclusiveAnalysis)]
              ELSE c3
        c5 == IF c4.halt # "" \/ inconclusive THEN c4
              ELSE IF in.step = "pause"
              THEN [c4 EXCEPT !.newStatus.pauseConditions =
                                 AppendNew(@, PauseReasonCanaryPauseStep)]
              ELSE IF in.step = "advance" /\ c4.newStatus.currentStepIndex < MaxSteps
              THEN [c4 EXCEPT !.newStatus.currentStepIndex = @ + 1,
                              !.newStatus.pauseConditions =
                                 RemoveAll(@, {PauseReasonCanaryPauseStep})]
              ELSE c4
    IN  IF in.branchErr
        THEN [c |-> c1, err |-> "rolloutCanary error"]
        ELSE [c |-> [c5 EXCEPT !.newStatus.replicas = c.rollout.replicas],
              err |-> NoErr]

\* The blue-green branch (entry contract): as the canary branch, with the
\* pre-promotion run and the blue-green pause; it has no steps.
rolloutBlueGreen(c, in) ==
    LET c1 == Ran(c, "rolloutBlueGreen")
        c2 == SetCurrentAnalysisRuns(c1, [NoCurrentArs EXCEPT
                                             !.BlueGreenPrePromotion = in.ar])
        c3 == [c2 EXCEPT !.halt = haltProgress(c2)]
        inconclusive == in.ar # NilAr /\ in.ar.phase = "Inconclusive"
        c4 == IF inconclusive
              THEN [c3 EXCEPT !.newStatus.pauseConditions =
                                 AppendNew(@, PauseReasonInconclusiveAnalysis)]
              ELSE c3
        c5 == IF c4.halt # "" \/ inconclusive THEN c4
              ELSE IF in.step = "pause"
              THEN [c4 EXCEPT !.newStatus.pauseConditions =
                                 AppendNew(@, PauseReasonBlueGreenPause)]
              ELSE IF in.step = "advance"
              THEN [c4 EXCEPT !.newStatus.pauseConditions =
                                 RemoveAll(@, {PauseReasonBlueGreenPause})]
              ELSE c4
    IN  IF in.branchErr
        THEN [c |-> c1, err |-> "rolloutBlueGreen error"]
        ELSE [c |-> [c5 EXCEPT !.newStatus.replicas = c.rollout.replicas],
              err |-> NoErr]

\* ---------------------------------------------------------------- reconcile
\* Variants of reconcile with a slip each: one that ignores the errors of the first two phases,
\* one that falls through to the strategy branch after the Scaling
\* Synchronizer, one that tests the canary strategy first.
reconcile_IgnoreErrors(c, in) ==
    LET r1 == checkPausedConditions(c, in)
        r2 == isScalingEvent(r1.c, in)
    IN  IF r2.val THEN syncReplicasOnly(r2.c, in)
        ELSE IF r2.c.rollout.blueGreen THEN rolloutBlueGreen(r2.c, in)
        ELSE rolloutCanary(r2.c, in)

reconcile_FallThrough(c, in) ==
    LET r1 == checkPausedConditions(c, in)
        r2 == isScalingEvent(r1.c, in)
        r3 == IF r2.val THEN syncReplicasOnly(r2.c, in)
              ELSE [c |-> r2.c, err |-> NoErr]
    IN  IF r1.err # NoErr THEN r1
        ELSE IF r2.err # NoErr THEN [c |-> r2.c, err |-> r2.err]
        ELSE IF r3.err # NoErr THEN r3
        ELSE IF r3.c.rollout.blueGreen THEN rolloutBlueGreen(r3.c, in)
        ELSE rolloutCanary(r3.c, in)

reconcile_CanaryFirst(c, in) ==
    LET r1 == checkPausedConditions(c, in)
        r2 == isScalingEvent(r1.c, in)
    IN  IF r1.err # NoErr THEN r1
        ELSE IF r2.err # NoErr THEN [c |-> r2.c, err |-> r2.err]
        ELSE IF r2.val THEN syncReplicasOnly(r2.c, in)
        ELSE IF r2.c.rollout.canary THEN rolloutCanary(r2.c, in)
        ELSE rolloutBlueGreen(r2.c, in)

reconcile(c, in) ==
    LET r1 == checkPausedConditions(c, in)
        r2 == isScalingEvent(r1.c, in)
    IN  IF r1.err # NoErr THEN r1
        ELSE IF r2.err # NoErr THEN [c |-> r2.c, err |-> r2.err]
        ELSE IF r2.val THEN syncReplicasOnly(r2.c, in)
        ELSE IF r2.c.rollout.blueGreen THEN rolloutBlueGreen(r2.c, in)
        ELSE rolloutCanary(r2.c, in)

\* ------------------------------------------------- the dispatch specification
AnalysisRun(name, phase, message) ==
    [name |-> name, phase |-> phase, message |-> message]

NoStatus ==
    [pauseConditions |-> <<>>, currentStepIndex |-> 0, replicas |-> 1,
     canaryBackground |-> NilArStatus, canaryStep |-> NilArStatus,
     prePromotion |-> NilArStatus, postPromotion |-> NilArStatus]

NoPass(ro) ==
    [ran |-> FALSE, before |-> ro,
     in |-> [pauseErr |-> FALSE, scalingErr |-> FALSE, resolved |-> {},
             templateChanged |-> FALSE, branchErr |-> FALSE],
     phases |-> <<>>, err |-> NoErr, halt |-> Nil]

\* What one pass is given by its environment: which phases fail, which pause
\* triggers have resolved, whether the pod template changed, and what the
\* strategy branch decides (the analysis run it selects, the step it takes).
DispatchRuns ==
    {NilAr, AnalysisRun("ar1", "Running", ""), AnalysisRun("ar1", "Inconclusive", "")}

\* An input the pass does not read (everything after a failing phase, the
\* branch's choices when the branch fails) is given once, at its default.
DispatchInputs(ro) ==
    LET Resolved == SUBSET Range(ro.status.pauseConditions)
        Base == [pauseErr |-> FALSE, resolved |-> {}, scalingErr |-> FALSE,
                 templateChanged |-> FALSE, branchErr |-> FALSE,
                 step |-> "hold", ar |-> NilAr]
    IN  {[Base EXCEPT !.pauseErr = TRUE]}
        \cup {[Base EXCEPT !.resolved = rs, !.scalingErr = TRUE] : rs \in Resolved}
        \cup {[Base EXCEPT !.resolved = rs, !.templateChanged = tc,
                           !.branchErr = TRUE] :
                 rs \in Resolved, tc \in BOOLEAN}
        \cup {[Base EXCEPT !.resolved = rs, !.templateChanged = tc,
                           !.step = st, !.ar = ar] :
                 rs \in Resolved, tc \in BOOLEAN,
                 st \in {"advance", "pause", "hold"}, ar \in DispatchRuns}

\* A rollout as created: validation upstream admits exactly one strategy; the
\* dispatcher is run on all four combinations of the two strategy pointers.
InitDispatch ==
    /\ rollout \in [paused : {FALSE}, blueGreen : BOOLEAN, canary : BOOLEAN,
                    replicas : {1}, status : {NoStatus}]
    /\ pass = NoPass(rollout)
    /\ ars = Unused /\ store = Unused /\ informer = Unused
    /\ rsctx = Unused /\ rb = Unused
    /\ exs = Unused /\ rsets = Unused

\* The user sets or clears spec.paused.
SetPaused ==
    /\ rollout' = [rollout EXCEPT !.paused = ~@]
    /\ UNCHANGED <<pass, ars, store, informer, rsctx, rb,
                 exs, rsets>>

\* The user (or an autoscaler) changes spec.replicas.
SetReplicas ==
    /\ \E n \in 1..MaxReplicas :
          /\ n # rollout.replicas
          /\ rollout' = [rollout EXCEPT !.replicas = n]
    /\ UNCHANGED <<pass, ars, store, informer, rsctx, rb,
                 exs, rsets>>

\* One reconciliation pass; the working status the pass leaves is persisted,
\* also when the pass returns an error.
Reconcile ==
    /\ \E in \in DispatchInputs(rollout) :
          \E r \in {reconcile(NewContext(rollout), in)} :
              /\ rollout' = [rollout EXCEPT !.status = r.c.newStatus]
              /\ pass' = [ran |-> TRUE, before |-> rollout,
                          in |-> [pauseErr |-> in.pauseErr,
                                  scalingErr |-> in.scalingErr,
                                  resolved |-> in.resolved,
                                  templateChanged |-> in.templateChanged,
                                  branchErr |-> in.branchErr],
                          phases |-> r.c.phases, err |-> r.err,
                          halt |-> r.c.halt]
    /\ UNCHANGED <<ars, store, informer, rsctx, rb,
                 exs, rsets>>

NextDispatch == SetPaused \/ SetReplicas \/ Reconcile

SpecDispatch == InitDispatch /\ [][NextDispatch]_vars

\* ------------------------------------------------------ dispatcher properties
CheckedPhases == <<"checkPausedConditions">>
DetectedPhases == <<"checkPausedConditions", "isScalingEvent">>
BranchPhases == {"syncReplicasOnly", "rolloutBlueGreen", "rolloutCanary"}

\* The last pass got through both checks without an error.
PassedChecks == pass.ran /\ ~pass.in.pauseErr /\ ~pass.in.scalingErr

\* The last pass was a scaling event: only the replica count differed.
ScalingPass ==
    /\ PassedChecks
    /\ pass.before.replicas # pass.before.status.replicas
    /\ ~pass.in.templateChanged

\* The pause, analysis and step fields of a status.
AnalysisAndStep(st) ==
    <<st.canaryBackground, st.canaryStep, st.prePromotion, st.postPromotion,
      st.currentStepIndex>>

\* C1: a pass runs pause-condition evaluation, then scaling-event detection,
\* then exactly one of the Scaling Synchronizer and the two strategy branches;
\* an error of one of the first two phases is the pass's result and no later
\* phase runs.
C1_PhaseOrder ==
    pass.ran =>
       /\ pass.in.pauseErr =>
             /\ pass.phases = CheckedPhases
             /\ pass.err = "checkPausedConditions error"
       /\ (~pass.in.pauseErr /\ pass.in.scalingErr) =>
             /\ pass.phases = DetectedPhases
             /\ pass.err = "isScalingEvent error"
       /\ PassedChecks =>
             /\ Len(pass.phases) = 3
             /\ SubSeq(pass.phases, 1, 2) = DetectedPhases
             /\ pass.phases[3] \in BranchPhases

C1_Witness ==
    /\ pass.ran /\ ~pass.in.pauseErr /\ pass.in.scalingErr
    /\ pass.err = "isScalingEvent error"
    /\ pass.before.status.pauseConditions # <<>>

\* C2 as stated: on a scaling event only the Scaling Synchronizer runs, its
\* result is the pass's result, and the pause-condition list, the analysis
\* status fields and the step index are after the pass what they were before.
C2_Original ==
    ScalingPass =>
       /\ pass.phases = Append(DetectedPhases, "syncReplicasOnly")
       /\ pass.err = IF pass.in.branchErr THEN "syncReplicasOnly error" ELSE NoErr
       /\ AnalysisAndStep(rollout.status) = AnalysisAndStep(pass.before.status)
       /\ rollout.status.pauseConditions = pass.before.status.pauseConditions

\* C2, amended: on a scaling event only the Scaling Synchronizer runs, its
\* result is the pass's result, the analysis status fields and the step index
\* are unchanged, and the pause-condition list is the one pause-condition
\* evaluation left: the list before the pass without the conditions whose
\* trigger had resolved, in the same order, and with nothing added.
C2_ScalingOnly ==
    ScalingPass =>
       /\ pass.phases = Append(DetectedPhases, "syncReplicasOnly")
       /\ pass.err = IF pass.in.branchErr THEN "syncReplicasOnly error" ELSE NoErr
       /\ AnalysisAndStep(rollout.status) = AnalysisAndStep(pass.before.status)
       /\ rollout.status.pauseConditions =
             RemoveAll(pass.before.status.pauseConditions, pass.in.resolved)

C2_Witness ==
    /\ ScalingPass
    /\ pass.phases = Append(DetectedPhases, "syncReplicasOnly")
    /\ pass.before.status.pauseConditions # <<>>
    /\ pass.before.status.canaryStep # NilArStatus
    /\ pass.before.status.currentStepIndex > 0
    /\ pass.err = NoErr

\* C3: a pass that is no scaling event and had no earlier error runs exactly
\* one strategy branch, once: the blue-green branch iff a blue-green strategy
\* is configured, the canary branch otherwise.
C3_OneBranch ==
    (PassedChecks /\ ~ScalingPass) =>
       /\ Len(pass.phases) = 3
       /\ pass.phases[3] = IF pass.before.blueGreen THEN "rolloutBlueGreen"
                           ELSE "rolloutCanary"
       /\ Cardinality({i \in 1..Len(pass.phases) :
             pass.phases[i] \in {"rolloutBlueGreen", "rolloutCanary"}}) = 1

C3_Witness ==
    /\ PassedChecks /\ ~ScalingPass
    /\ pass.before.blueGreen /\ ~pass.before.canary
    /\ pass.phases[3] = "rolloutBlueGreen"
    /\ pass.err = NoErr

\* C4: whatever pause reasons are active, haltProgress answers "user paused"
\* when the user pause is set, and "inconclusive analysis" only when the
\* inconclusive-analysis condition is active and the user pause is not.
C4_UserPauseFirst ==
    (pass.ran /\ pass.halt # Nil) =>
       /\ pass.before.paused => pass.halt = "user paused"
       /\ pass.halt = "inconclusive analysis" <=>
             /\ ~pass.before.paused
             /\ PauseReasonInconclusiveAnalysis \in
                   Range(pass.before.status.pauseConditions)

C4_Witness ==
    /\ pass.ran /\ pass.halt = "user paused"
    /\ pass.before.paused
    /\ PauseReasonInconclusiveAnalysis \in
          Range(pass.before.status.pauseConditions)

\* ------------------------------------------------- the analysis specification
ArNames == <<"ar1", "ar2">>
ArPhases == {"Running", "Inconclusive"}
ArMessages == {"", "metric above threshold"}

\* The analysis runs owned by the rollout, as listed from the informer.
ArLists ==
    {<<AnalysisRun(ArNames[1], p1, m1), AnalysisRun(ArNames[2], p2, m2)>> :
        p1 \in ArPhases, m1 \in ArMessages, p2 \in ArPhases, m2 \in ArMessages}

\* The run names recorded in a status.
StatusArNames(st) ==
    {st.canaryBackground.name, st.canaryStep.name,
     st.prePromotion.name, st.postPromotion.name} \ {Nil}

\* The listed run with the name a status field records, or nil.
ArByName(list, name) ==
    IF \E i \in 1..Len(list) : list[i].name = name
    THEN list[CHOOSE i \in 1..Len(list) : list[i].name = name]
    ELSE NilAr

\* The classification at the start of a pass: the runs the status names are
\* current, all others are delete candidates.
FilterCurrentRolloutAnalysisRuns(list, ro) ==
    [current |->
        [CanaryBackground |-> ArByName(list, ro.status.canaryBackground.name),
         CanaryStep |-> ArByName(list, ro.status.canaryStep.name),
         BlueGreenPrePromotion |-> ArByName(list, ro.status.prePromotion.name),
         BlueGreenPostPromotion |-> ArByName(list, ro.status.postPromotion.name)],
     other |-> SelectSeq(list, LAMBDA ar : ar.name \notin StatusArNames(ro.status))]

\* The selections a strategy branch can make from the listed runs: the slots
\* of the configured strategy, each nil or a listed run.
ArSelections(list, ro) ==
    LET Pick == {NilAr} \cup Range(list)
    IN  IF ro.canary
        THEN {[NoCurrentArs EXCEPT !.CanaryBackground = a, !.CanaryStep = b] :
                 a \in Pick, b \in Pick}
        ELSE {[NoCurrentArs EXCEPT !.BlueGreenPrePromotion = a,
                                   !.BlueGreenPostPromotion = b] :
                 a \in Pick, b \in Pick}

Slots ==
    {"CanaryBackground", "CanaryStep", "BlueGreenPrePromotion",
     "BlueGreenPostPromotion"}

InitAnalysis ==
    /\ \E ro \in [paused : {FALSE}, blueGreen : BOOLEAN, canary : BOOLEAN,
                  replicas : {1}, status : {NoStatus}],
          list \in ArLists :
          /\ ro.blueGreen # ro.canary
          /\ ars = [at |-> "idle", ro |-> ro, list |-> list,
                    c |-> NewContext(ro), pre |-> NewContext(ro)]
    /\ rollout = Unused /\ pass = Unused /\ store = Unused
    /\ informer = Unused /\ rsctx = Unused /\ rb = Unused
    /\ exs = Unused /\ rsets = Unused

\* A pass starts: the context is built and the analysis runs are classified.
BeginAnalysisPass ==
    /\ ars.at = "idle"
    /\ \E f \in {FilterCurrentRolloutAnalysisRuns(ars.list, ars.ro)} :
          \E c \in {[NewContext(ars.ro) EXCEPT !.currentArs = f.current,
                                               !.otherArs = f.other]} :
             ars' = [ars EXCEPT !.at = "classified", !.c = c, !.pre = c]
    /\ UNCHANGED <<rollout, pass, store, informer, rsctx, rb,
                 exs, rsets>>

\* The strategy branch selects the current runs and propagates them.
Propagate ==
    /\ ars.at = "classified"
    /\ \E currARs \in ArSelections(ars.list, ars.ro) :
          ars' = [ars EXCEPT !.at = "propagated", !.pre = ars.c,
                             !.c = SetCurrentAnalysisRuns(ars.c, currARs)]
    /\ UNCHANGED <<rollout, pass, store, informer, rsctx, rb,
                 exs, rsets>>

\* Between passes the user moves the rollout to the other strategy; the
\* status keeps the sub-fields of the strategy it had.
SwitchStrategy ==
    /\ ars.at = "idle"
    /\ ars' = [ars EXCEPT !.ro.canary = ~ars.ro.canary,
                          !.ro.blueGreen = ~ars.ro.blueGreen]
    /\ UNCHANGED <<rollout, pass, store, informer, rsctx, rb,
                 exs, rsets>>

\* The pass ends: its working status is persisted.
EndAnalysisPass ==
    /\ ars.at = "propagated"
    /\ ars' = [ars EXCEPT !.at = "idle", !.ro.status = ars.c.newStatus]
    /\ UNCHANGED <<rollout, pass, store, informer, rsctx, rb,
                 exs, rsets>>

NextAnalysis ==
    BeginAnalysisPass \/ Propagate \/ EndAnalysisPass \/ SwitchStrategy

SpecAnalysis == InitAnalysis /\ [][NextAnalysis]_vars

\* --------------------------------------------------------- analysis properties
InOther(c, ar) == \E i \in 1..Len(c.otherArs) : c.otherArs[i].name = ar.name

\* C5: after SetCurrentAnalysisRuns no run that is current in a slot is left
\* in the "other" (delete-candidate) list.
C5_CurrentNotInOther ==
    ars.at = "propagated" =>
       \A slot \in Slots :
          ars.c.currentArs[slot] # NilAr => ~InOther(ars.c, ars.c.currentArs[slot])

\* ------------------------------------------------ label and annotation keys
\* A key is the sequence of the pieces of its string, cut so that a prefix
\* is a sequence of whole pieces; HasPrefix is the prefix test on them.
HasPrefix(key, prefix) ==
    /\ Len(key) >= Len(prefix)
    /\ SubSeq(key, 1, Len(prefix)) = prefix

RolloutLabel == <<"rollout", ".argoproj.io">>
ArgoRolloutsPrefix == <<"argo-rollouts", ".argoproj.io">>
ExperimentPrefix == <<"experiment", ".argoproj.io">>

DefaultRolloutUniqueLabelKey == <<"rollout", "s-pod-template-hash">>
DefaultReplicaSetScaleDownDeadlineAnnotationKey == <<"scale-down-deadline">>
ReplicaSetFinalStatusKey == <<"argo-rollouts", ".argoproj.io", "/final-status">>

\* The test of context.go:204-206 and 211-213.
HasControllerPrefix(key) ==
    \/ HasPrefix(key, RolloutLabel)
    \/ HasPrefix(key, ArgoRolloutsPrefix)
    \/ HasPrefix(key, ExperimentPrefix)

\* ------------------------------------------------------------ string maps
EmptyMap == [k \in {} |-> ""]

MapPut(m, key, value) ==
    [k \in DOMAIN m \cup {key} |-> IF k = key THEN value ELSE m[k]]

MapMerge(m, patch) ==
    [k \in DOMAIN m \cup DOMAIN patch |-> IF k \in DOMAIN patch THEN patch[k] ELSE m[k]]

Restrict(m, keys) == [k \in DOMAIN m \cap keys |-> m[k]]

\* ------------------------------------------------------------ replica sets
NewRSName == "rs-new"
OldRSName == "rs-old"
Namespace == "default"

\* The zero value appsv1.ReplicaSet{} and the nil *appsv1.ReplicaSet.
EmptyRS ==
    [nil |-> FALSE, name |-> "", namespace |-> "", replicas |-> 0,
     labels |-> EmptyMap, annotations |-> EmptyMap,
     tmplLabels |-> EmptyMap, tmplAnnotations |-> EmptyMap,
     matchLabels |-> EmptyMap]

NilRS == [EmptyRS EXCEPT !.nil = TRUE]

\* ------------------------------------------------------- generateBasePatch
\* Variants with a slip each: one copies every label and annotation, one
\* also copies the object's name and namespace.
generateBasePatch_CopyAll(rs) ==
    [EmptyRS EXCEPT
        !.replicas = rs.replicas,
        !.tmplLabels = rs.tmplLabels,
        !.tmplAnnotations = rs.tmplAnnotations,
        !.labels = rs.labels,
        !.annotations = rs.annotations,
        !.matchLabels = Restrict(rs.matchLabels, {DefaultRolloutUniqueLabelKey})]

\* A variant with a slip: the template labels are taken from the object's labels.
generateBasePatch_TemplateFromMeta(rs) ==
    [EmptyRS EXCEPT
        !.replicas = rs.replicas,
        !.tmplLabels = rs.labels,
        !.tmplAnnotations = rs.annotations,
        !.labels = Restrict(rs.labels,
            {DefaultRolloutUniqueLabelKey}
            \cup {k \in DOMAIN rs.labels : HasControllerPrefix(k)}),
        !.annotations = Restrict(rs.annotations,
            {DefaultReplicaSetScaleDownDeadlineAnnotationKey}
            \cup {k \in DOMAIN rs.annotations : HasControllerPrefix(k)}),
        !.matchLabels = Restrict(rs.matchLabels, {DefaultRolloutUniqueLabelKey})]

generateBasePatch_WithObjectMeta(rs) ==
    [EmptyRS EXCEPT
        !.name = rs.name,
        !.namespace = rs.namespace,
        !.replicas = rs.replicas,
        !.tmplLabels = rs.tmplLabels,
        !.tmplAnnotations = rs.tmplAnnotations,
        !.labels = Restrict(rs.labels,
            {DefaultRolloutUniqueLabelKey}
            \cup {k \in DOMAIN rs.labels : HasControllerPrefix(k)}),
        !.annotations = Restrict(rs.annotations,
            {DefaultReplicaSetScaleDownDeadlineAnnotationKey}
            \cup {k \in DOMAIN rs.annotations : HasControllerPrefix(k)}),
        !.matchLabels = Restrict(rs.matchLabels, {DefaultRolloutUniqueLabelKey})]

\* The patch object starts as the zero value; name and namespace are never
\* set.  Labels: the unique-hash key and the prefixed keys; annotations: the
\* scale-down-deadline key and the prefixed keys; selector: the unique-hash
\* entry.
generateBasePatch(rs) ==
    [EmptyRS EXCEPT
        !.replicas = rs.replicas,
        !.tmplLabels = rs.tmplLabels,
        !.tmplAnnotations = rs.tmplAnnotations,
        !.labels = Restrict(rs.labels,
            {DefaultRolloutUniqueLabelKey}
            \cup {k \in DOMAIN rs.labels : HasControllerPrefix(k)}),
        !.annotations = Restrict(rs.annotations,
            {DefaultReplicaSetScaleDownDeadlineAnnotationKey}
            \cup {k \in DOMAIN rs.annotations : HasControllerPrefix(k)}),
        !.matchLabels = Restrict(rs.matchLabels, {DefaultRolloutUniqueLabelKey})]

\* A variant with a slip: a final status the replica set already carries is kept.
generateRSFinalStatusPatch_KeepLive(c, status) ==
    [generateBasePatch(c.newRS) EXCEPT
        !.annotations =
            IF ReplicaSetFinalStatusKey \in DOMAIN c.newRS.annotations
            THEN MapPut(@, ReplicaSetFinalStatusKey,
                        c.newRS.annotations[ReplicaSetFinalStatusKey])
            ELSE MapPut(@, ReplicaSetFinalStatusKey, status)]

generateRSFinalStatusPatch(c, status) ==
    [generateBasePatch(c.newRS) EXCEPT
        !.annotations = MapPut(@, ReplicaSetFinalStatusKey, status)]

\* --------------------------------------------------------------- the store
MapFields == {"labels", "annotations", "tmplLabels", "tmplAnnotations", "matchLabels"}

\* diff.CreateTwoWayMergePatch(original, modified, current): the fields of
\* modified that differ from original, by field name.  A field left at its
\* zero value (here: name and namespace) is not in the patch.
CreateTwoWayMergePatch(original, modified) ==
    [f \in {g \in DOMAIN modified \ {"nil"} : modified[g] # original[g]} |->
        modified[f]]

\* The object a strategic merge of the patch leaves: maps merge key by key,
\* the replica count is replaced, every field not in the patch is kept.
ApplyPatch(rs, patch) ==
    [f \in DOMAIN rs |->
        IF f \notin DOMAIN patch THEN rs[f]
        ELSE IF f \in MapFields THEN MapMerge(rs[f], patch[f])
        ELSE IF f = "replicas" THEN patch[f]
        ELSE rs[f]]

\* ReplicaSets(namespace).Patch(name, patch): the store rejects a request
\* that names no replica set it holds, or fails on its own (fails); else it
\* applies the patch, whatever the object's current content, and returns the
\* updated object.
StorePatch(st, namespace, name, patch, fails) ==
    IF fails \/ name \notin DOMAIN st
    THEN [err |-> "rejected", store |-> st, updated |-> NilRS]
    ELSE IF st[name].namespace # namespace
    THEN [err |-> "rejected", store |-> st, updated |-> NilRS]
    ELSE [err |-> NoErr,
          store |-> [st EXCEPT ![name] = ApplyPatch(st[name], patch)],
          updated |-> ApplyPatch(st[name], patch)]

\* --------------------------------------------------------- setFinalRSStatus
\* An error is <<what failed, the replica set named in the message, cause>>.
NoError == <<>>
Panic == <<"panic: nil pointer dereference">>
PatchFailed == "error patching replicaset in setFinalRSStatus"
InformerFailed == "error updating replicaset informer in setFinalRSStatus"

\* What a call leaves: its return value, the store and the mirror, the patch
\* requests it issued, the patch object it generated, the store's answer.
Returned(err, st, inf, requests, patchRS, rejected) ==
    [err |-> err, store |-> st, informer |-> inf, requests |-> requests,
     patchRS |-> patchRS, rejected |-> rejected]

\* A variant with a slip: the error message names the patch object instead of newRS.
AfterPatch_NamesPatchObject(c, env, patchRS, res) ==
    IF res.err # NoErr
    THEN Returned(<<PatchFailed, patchRS.name, res.err>>, res.store, c.informer,
                  <<[namespace |-> patchRS.namespace, name |-> patchRS.name]>>,
                  patchRS, TRUE)
    ELSE IF env.informerFails
    THEN Returned(<<InformerFailed, c.newRS.name, "indexer">>, res.store,
                  c.informer,
                  <<[namespace |-> patchRS.namespace, name |-> patchRS.name]>>,
                  patchRS, FALSE)
    ELSE Returned(NoError, res.store,
                  [c.informer EXCEPT ![res.updated.name] = res.updated],
                  <<[namespace |-> patchRS.namespace, name |-> patchRS.name]>>,
                  patchRS, FALSE)

\* The part of setFinalRSStatus after the request (context.go:166-175).
AfterPatch(c, env, patchRS, res) ==
    IF res.err # NoErr
    THEN Returned(<<PatchFailed, c.newRS.name, res.err>>, res.store, c.informer,
                  <<[namespace |-> patchRS.namespace, name |-> patchRS.name]>>,
                  patchRS, TRUE)
    ELSE IF env.informerFails
    THEN Returned(<<InformerFailed, c.newRS.name, "indexer">>, res.store,
                  c.informer,
                  <<[namespace |-> patchRS.namespace, name |-> patchRS.name]>>,
                  patchRS, FALSE)
    ELSE Returned(NoError, res.store,
                  [c.informer EXCEPT ![res.updated.name] = res.updated],
                  <<[namespace |-> patchRS.namespace, name |-> patchRS.name]>>,
                  patchRS, FALSE)

\* The request of context.go:164 is addressed with the namespace and name of
\* the generated patch object.
PatchAndUpdate(c, env, patchRS) ==
    AfterPatch(c, env, patchRS,
               StorePatch(c.store, patchRS.namespace, patchRS.name,
                          CreateTwoWayMergePatch(EmptyRS, patchRS),
                          env.storeFails))

\* generateBasePatch dereferences newRS: a nil newRS ends the process.  The
\* diff of two well-formed typed objects cannot fail (context.go:158-160).
setFinalRSStatus(c, status, env) ==
    IF c.newRS.nil
    THEN Returned(Panic, c.store, c.informer, <<>>, EmptyRS, FALSE)
    ELSE PatchAndUpdate(c, env, generateRSFinalStatusPatch(c, status))

\* ---------------------------------------------------- the patch specification
FinalStatuses == {"success", "aborted"}

\* The labels and annotations a live replica set can carry: controller-owned
\* keys, the unique-hash and scale-down-deadline keys, keys of other owners.
LiveLabels ==
    (DefaultRolloutUniqueLabelKey :> "5d7c")
    @@ (<<"experiment", ".argoproj.io", "/name">> :> "exp-1")
    @@ (<<"app">> :> "web")

LiveAnnotations ==
    (DefaultReplicaSetScaleDownDeadlineAnnotationKey :> "2026-01-01T00:00:00Z")
    @@ (<<"rollout", ".argoproj.io", "/revision">> :> "5")
    @@ (<<"deployment.kubernetes.io", "/note">> :> "set by hand")
    @@ (ReplicaSetFinalStatusKey :> "aborted")

LiveReplicaSets(name) ==
    {[EmptyRS EXCEPT
         !.name = name, !.namespace = Namespace, !.replicas = n,
         !.labels = Restrict(LiveLabels, ls),
         !.annotations = Restrict(LiveAnnotations, as),
         !.tmplLabels = Restrict(LiveLabels, {DefaultRolloutUniqueLabelKey, <<"app">>}),
         !.tmplAnnotations = EmptyMap,
         !.matchLabels = Restrict(LiveLabels, ms)] :
        n \in 1..MaxReplicas,
        ls \in SUBSET DOMAIN LiveLabels,
        as \in SUBSET DOMAIN LiveAnnotations,
        ms \in {{<<"app">>}, {DefaultRolloutUniqueLabelKey, <<"app">>}}}

OldReplicaSet ==
    [EmptyRS EXCEPT
        !.name = OldRSName, !.namespace = Namespace, !.replicas = 1,
        !.labels = Restrict(LiveLabels, {<<"app">>}),
        !.matchLabels = Restrict(LiveLabels, {<<"app">>})]

\* The environment of a call: whether the store fails on its own, whether
\* the mirror's indexer refuses the update.
NoEnv == [storeFails |-> FALSE, informerFails |-> FALSE]

NoCall ==
    [Returned(NoError, <<>>, <<>>, <<>>, EmptyRS, FALSE) EXCEPT
        !.store = OldRSName :> OldReplicaSet,
        !.informer = OldRSName :> OldReplicaSet]

InitPatch ==
    /\ \E rs \in LiveReplicaSets(NewRSName) :
          /\ store = (NewRSName :> rs) @@ (OldRSName :> OldReplicaSet)
          /\ informer = store
    /\ rsctx = [at |-> "idle", newRS |-> NilRS, edited |-> FALSE,
                status |-> "", env |-> NoEnv, before |-> NoCall,
                call |-> NoCall]
    /\ rollout = Unused /\ pass = Unused /\ ars = Unused /\ rb = Unused
    /\ exs = Unused /\ rsets = Unused

\* A pass starts and reads its snapshot of the new replica set from the
\* mirror; newRS is nil when no replica set matches the pod template.
BeginPatchPass ==
    /\ rsctx.at = "idle"
    /\ \E rs \in {informer[NewRSName], NilRS} :
          rsctx' = [rsctx EXCEPT !.at = "inPass", !.newRS = rs, !.edited = FALSE]
    /\ UNCHANGED <<rollout, pass, ars, store, informer, rb,
                 exs, rsets>>

\* Another actor changes the replica count of the replica set in the store.
ExternalEdit ==
    /\ \E n \in 1..MaxReplicas :
          /\ n # store[NewRSName].replicas
          /\ store' = [store EXCEPT ![NewRSName].replicas = n]
    /\ rsctx' = [rsctx EXCEPT !.edited = (rsctx.at = "inPass")]
    /\ UNCHANGED <<rollout, pass, ars, informer, rb,
                 exs, rsets>>

\* The watch stream brings the mirror up to date.
InformerSync ==
    /\ informer # store
    /\ informer' = store
    /\ UNCHANGED <<rollout, pass, ars, store, rsctx, rb,
                 exs, rsets>>

\* The pass calls setFinalRSStatus(status).
SetFinalRSStatus ==
    /\ rsctx.at = "inPass"
    /\ \E status \in FinalStatuses,
          env \in [storeFails : BOOLEAN, informerFails : BOOLEAN] :
          \E r \in {setFinalRSStatus([newRS |-> rsctx.newRS, store |-> store,
                                      informer |-> informer], status, env)} :
             /\ store' = r.store
             /\ informer' = r.informer
             /\ rsctx' = [rsctx EXCEPT
                   !.at = "returned", !.status = status, !.env = env,
                   !.call = r,
                   !.before = [NoCall EXCEPT !.store = store,
                                             !.informer = informer]]
    /\ UNCHANGED <<rollout, pass, ars, rb,
                 exs, rsets>>

\* The pass ends (after a panic: the process restarts).
EndPatchPass ==
    /\ rsctx.at = "returned"
    /\ rsctx' = [rsctx EXCEPT !.at = "idle", !.newRS = NilRS, !.edited = FALSE,
                              !.status = "", !.env = NoEnv,
                              !.before = NoCall, !.call = NoCall]
    /\ UNCHANGED <<rollout, pass, ars, store, informer, rb,
                 exs, rsets>>

NextPatch ==
    BeginPatchPass \/ ExternalEdit \/ InformerSync \/ SetFinalRSStatus
    \/ EndPatchPass

SpecPatch == InitPatch /\ [][NextPatch]_vars

\* ------------------------------------------------------------ patch properties
\* setFinalRSStatus has returned and had generated its patch object.
Generated == rsctx.at = "returned" /\ ~rsctx.newRS.nil

C10_RejectedPatch ==
    (rsctx.at = "returned" /\ rsctx.call.rejected) =>
       /\ rsctx.call.err = <<PatchFailed, NewRSName, "rejected">>
       /\ rsctx.newRS.name = NewRSName
       /\ Len(rsctx.call.requests) = 1
       /\ rsctx.call.informer = rsctx.before.informer

C10_Witness ==
    /\ rsctx.at = "returned" /\ rsctx.call.rejected
    /\ rsctx.call.err[2] = NewRSName
    /\ rsctx.status = "aborted"

\* ------------------------------------------------- the rollback-window evaluator
\* The revision history, most recent first: position 1 is the current
\* revision, and a linear history numbers the revisions behind it downwards.
\* An entry tells whether the revision's replica set still exists and whether
\* it carries the abort marker.
Entry(rev, exists, aborted) == [rev |-> rev, exists |-> exists, aborted |-> aborted]

CurrentRevision(hist) == hist[1].rev

\* A variant with a slip: a window that is one revision too long.
RollbackWindow_OneMore(hist, window) ==
    {hist[i] : i \in {j \in 2..Len(hist) : j <= window + 2}}

\* The window: the `window` revisions behind the current one in the history.
RollbackWindow(hist, window) ==
    {hist[i] : i \in {j \in 2..Len(hist) : j <= window + 1}}

\* A variant with a slip: a window that skips aborted revisions and so reaches further back.
Evaluate_Dynamic(hist, target, window) ==
    LET good == SelectSeq(SubSeq(hist, 2, Len(hist)), LAMBDA e : ~e.aborted)
        inWindow == {good[i] : i \in {j \in 1..Len(good) : j <= window}}
    IN  IF \E e \in inWindow : e.rev = target /\ e.exists
        THEN [eligible |-> TRUE, reason |-> "within rollback window"]
        ELSE [eligible |-> FALSE, reason |-> "outside rollback window"]

\* The verdict on a request to move to revision target: the window is
\* calculated first, then the replica sets that are gone or were aborted are
\* filtered from it.
Evaluate(hist, target, window) ==
    IF target >= CurrentRevision(hist)
    THEN [eligible |-> FALSE, reason |-> "not a rollback"]
    ELSE IF ~\E e \in RollbackWindow(hist, window) : e.rev = target
    THEN [eligible |-> FALSE, reason |-> "outside rollback window"]
    ELSE IF \E e \in RollbackWindow(hist, window) : e.rev = target /\ ~e.exists
    THEN [eligible |-> FALSE, reason |-> "replica set not found"]
    ELSE IF \E e \in RollbackWindow(hist, window) : e.rev = target /\ e.aborted
    THEN [eligible |-> FALSE, reason |-> "bad replica set protection"]
    ELSE [eligible |-> TRUE, reason |-> "within rollback window"]

\* ------------------------------------------------- the rollback specification
Flags == {<<TRUE, FALSE>>, <<TRUE, TRUE>>, <<FALSE, FALSE>>}

\* The linear histories that end in revision MaxHistory: the current revision
\* exists and is not aborted; each revision behind it exists or is gone, and
\* an existing one may carry the abort marker.
Histories ==
    UNION {
        {[i \in 1..len |->
             IF i = 1 THEN Entry(MaxHistory, TRUE, FALSE)
             ELSE Entry(MaxHistory + 1 - i, f[i][1], f[i][2])] :
            f \in [1..len -> Flags]} :
        len \in 1..MaxHistory}

Targets == 0..(MaxHistory + 1)

NoVerdict == [eligible |-> FALSE, reason |-> "not evaluated"]

InitRollback ==
    /\ \E hist \in Histories, window \in 0..MaxWindow, target \in Targets :
          rb = [hist |-> hist, window |-> window, target |-> target,
                evaluated |-> FALSE, verdict |-> NoVerdict]
    /\ rollout = Unused /\ pass = Unused /\ ars = Unused /\ store = Unused
    /\ informer = Unused /\ rsctx = Unused
    /\ exs = Unused /\ rsets = Unused

\* The evaluator decides the pending request.
EvaluateRollback ==
    /\ ~rb.evaluated
    /\ rb' = [rb EXCEPT !.evaluated = TRUE,
                        !.verdict = Evaluate(rb.hist, rb.target, rb.window)]
    /\ UNCHANGED <<rollout, pass, ars, store, informer, rsctx, exs, rsets>>

\* Another revision is requested.
RequestRevision ==
    /\ rb.evaluated
    /\ \E target \in Targets :
          rb' = [rb EXCEPT !.target = target, !.evaluated = FALSE,
                           !.verdict = NoVerdict]
    /\ UNCHANGED <<rollout, pass, ars, store, informer, rsctx, exs, rsets>>

NextRollback == EvaluateRollback \/ RequestRevision

SpecRollback == InitRollback /\ [][NextRollback]_vars

\* ------------------------------------------------------- rollback properties
Distance == CurrentRevision(rb.hist) - rb.target

\* The history's entry for the requested revision exists / is aborted.
TargetExists == \E i \in 1..Len(rb.hist) : rb.hist[i].rev = rb.target /\ rb.hist[i].exists
TargetAborted == \E i \in 1..Len(rb.hist) : rb.hist[i].rev = rb.target /\ rb.hist[i].aborted

\* Revisions inside the window, other than the target, that are disqualified.
DisqualifiedInWindow ==
    {i \in 2..Len(rb.hist) :
        /\ i <= rb.window + 1
        /\ rb.hist[i].rev # rb.target
        /\ (rb.hist[i].aborted \/ ~rb.hist[i].exists)}

ScenarioA ==
    <<Entry(5, TRUE, FALSE), Entry(4, TRUE, FALSE), Entry(3, TRUE, FALSE),
      Entry(2, TRUE, FALSE), Entry(1, TRUE, FALSE)>>

ScenarioB ==
    <<Entry(5, TRUE, FALSE), Entry(4, TRUE, TRUE), Entry(3, TRUE, FALSE),
      Entry(2, TRUE, FALSE)>>

\* C7: a request is fast-track eligible iff 1 <= current - R <= N, the replica
\* set of R still exists and R carries no abort marker; with history 1..5 and
\* N = 3 a request to 3 is eligible and a request to 1 is not; a forward move
\* is never eligible.
C7_EligibleIff ==
    rb.evaluated =>
       /\ rb.verdict.eligible <=>
             /\ 1 <= Distance /\ Distance <= rb.window
             /\ TargetExists /\ ~TargetAborted
       /\ Distance <= 0 => ~rb.verdict.eligible
       /\ (rb.hist = ScenarioA /\ rb.window = 3 /\ rb.target = 3) =>
             rb.verdict = [eligible |-> TRUE, reason |-> "within rollback window"]
       /\ (rb.hist = ScenarioA /\ rb.window = 3 /\ rb.target = 1) =>
             ~rb.verdict.eligible

C7_Witness ==
    /\ rb.evaluated /\ rb.hist = ScenarioA /\ rb.window = 3 /\ rb.target = 3
    /\ rb.verdict.eligible

\* C8: the window is not widened by a disqualified revision: with history
\* 2, 3, 4 (aborted), 5 (current) and N = 3 a request to 4 is ineligible (bad
\* replica set protection) and a request to 3 is eligible; an aborted revision
\* is ineligible, a good revision inside the window is eligible whatever the
\* other revisions of the window are, and a revision further than N behind is
\* ineligible however many revisions of the window are disqualified.
C8_NotWidened ==
    rb.evaluated =>
       /\ (rb.hist = ScenarioB /\ rb.window = 3 /\ rb.target = 4) =>
             rb.verdict = [eligible |-> FALSE, reason |-> "bad replica set protection"]
       /\ (rb.hist = ScenarioB /\ rb.window = 3 /\ rb.target = 3) =>
             rb.verdict.eligible
       /\ TargetAborted => ~rb.verdict.eligible
       /\ (1 <= Distance /\ Distance <= rb.window /\ TargetExists /\ ~TargetAborted)
             => rb.verdict.eligible
       /\ Distance > rb.window => ~rb.verdict.eligible

C8_Witness ==
    /\ rb.evaluated
    /\ Distance = rb.window + 1
    /\ TargetExists /\ ~TargetAborted
    /\ DisqualifiedInWindow # {}
    /\ ~rb.verdict.eligible

\* C11: the final-status patch step never ends the process: whatever the
\* context (also with newRS absent), setFinalRSStatus ends with a patch or a
\* returned error.
C11_NoCrash ==
    rsctx.at = "returned" => rsctx.call.err # Panic

\* C16: the patch object generateRSFinalStatusPatch returns carries the
\* final-status annotation with exactly the status passed in, also when the
\* live replica set carries another value for it; every other key of the
\* patch (replica count, template labels and annotations, labels,
\* annotations, selector entries) carries the live replica set's value.
C16_FinalStatusWritten ==
    Generated =>
       LET patch == rsctx.call.patchRS
           live == rsctx.newRS
       IN /\ ReplicaSetFinalStatusKey \in DOMAIN patch.annotations
          /\ patch.annotations[ReplicaSetFinalStatusKey] = rsctx.status
          /\ \A k \in DOMAIN patch.annotations \ {ReplicaSetFinalStatusKey} :
                k \in DOMAIN live.annotations
                /\ patch.annotations[k] = live.annotations[k]
          /\ \A k \in DOMAIN patch.labels :
                k \in DOMAIN live.labels /\ patch.labels[k] = live.labels[k]
          /\ \A k \in DOMAIN patch.matchLabels :
                k \in DOMAIN live.matchLabels
                /\ patch.matchLabels[k] = live.matchLabels[k]
          /\ patch.replicas = live.replicas
          /\ patch.tmplLabels = live.tmplLabels
          /\ patch.tmplAnnotations = live.tmplAnnotations

C16_Witness ==
    /\ Generated
    /\ ReplicaSetFinalStatusKey \in DOMAIN rsctx.newRS.annotations
    /\ rsctx.newRS.annotations[ReplicaSetFinalStatusKey] = "aborted"
    /\ rsctx.status = "success"
    /\ rsctx.call.patchRS.annotations[ReplicaSetFinalStatusKey] = "success"
    /\ <<"rollout", ".argoproj.io", "/revision">>
          \in DOMAIN rsctx.call.patchRS.annotations

\* C19: the patch request of setFinalRSStatus is addressed to the new replica
\* set: the namespace and the name of the request are those of newRS.
C19_AddressedToNewRS ==
    Generated =>
       /\ Len(rsctx.call.requests) = 1
       /\ rsctx.call.requests[1] =
             [namespace |-> rsctx.newRS.namespace, name |-> rsctx.newRS.name]

\* C20: merging the final-status patch into the replica set it was generated
\* from changes nothing but the final-status annotation, and merging the same
\* patch a second time changes nothing further.
C20_MergeOnlyFinalStatus ==
    Generated =>
       LET patch == CreateTwoWayMergePatch(EmptyRS, rsctx.call.patchRS)
           once == ApplyPatch(rsctx.newRS, patch)
       IN /\ once = [rsctx.newRS EXCEPT
                        !.annotations =
                            MapPut(@, ReplicaSetFinalStatusKey, rsctx.status)]
          /\ ApplyPatch(once, patch) = once

C20_Witness ==
    /\ Generated
    /\ rsctx.status = "success"
    /\ ReplicaSetFinalStatusKey \notin DOMAIN rsctx.newRS.annotations
    /\ <<"experiment", ".argoproj.io", "/name">> \in DOMAIN rsctx.newRS.labels
    /\ <<"app">> \in DOMAIN rsctx.newRS.labels
    /\ ApplyPatch(rsctx.newRS,
                  CreateTwoWayMergePatch(EmptyRS, rsctx.call.patchRS)) # rsctx.newRS

C18_HaltExactly ==
    (pass.ran /\ pass.halt # Nil) =>
       /\ pass.halt = "" <=>
             /\ ~pass.before.paused
             /\ PauseReasonInconclusiveAnalysis \notin
                   Range(pass.before.status.pauseConditions)
       /\ pass.halt \in {"", "user paused", "inconclusive analysis"}
       /\ haltProgress(NewContext(pass.before)) = pass.halt
       /\ haltProgress([NewContext(pass.before) EXCEPT !.halt = pass.halt])
             = pass.halt

C18_Witness ==
    /\ pass.ran /\ pass.halt = ""
    /\ ~pass.before.paused
    /\ Len(pass.before.status.pauseConditions) > 0

\* The status sub-field of a slot.
SlotField ==
    [CanaryBackground |-> "canaryBackground", CanaryStep |-> "canaryStep",
     BlueGreenPrePromotion |-> "prePromotion",
     BlueGreenPostPromotion |-> "postPromotion"]

\* The slots of the strategy a rollout configures.
ConfiguredSlots(ro) ==
    IF ro.canary THEN {"CanaryBackground", "CanaryStep"}
    ELSE IF ro.blueGreen THEN {"BlueGreenPrePromotion", "BlueGreenPostPromotion"}
    ELSE {}

\* C14: after SetCurrentAnalysisRuns, for each slot of the configured strategy
\* whose current run is present, the status sub-field of the slot holds
\* exactly that run's name, phase and message, and the run itself is the
\* listed run, unchanged; a slot whose run is absent leaves its sub-field as
\* it was; the sub-fields of the strategy that is not configured, and the
\* rest of the status, are unchanged.
C14_StatusMirrorsRuns ==
    ars.at = "propagated" =>
       LET cur == ars.c.currentArs
           new == ars.c.newStatus
           old == ars.pre.newStatus
       IN /\ \A slot \in ConfiguredSlots(ars.ro) :
                IF cur[slot] # NilAr
                THEN /\ new[SlotField[slot]].name = cur[slot].name
                     /\ new[SlotField[slot]].status = cur[slot].phase
                     /\ new[SlotField[slot]].message = cur[slot].message
                     /\ cur[slot] \in Range(ars.list)
                ELSE new[SlotField[slot]] = old[SlotField[slot]]
          /\ \A slot \in Slots \ ConfiguredSlots(ars.ro) :
                new[SlotField[slot]] = old[SlotField[slot]]
          /\ \A f \in DOMAIN new \ {SlotField[slot] : slot \in Slots} :
                new[f] = old[f]

C14_Witness ==
    /\ ars.at = "propagated" /\ ars.ro.canary
    /\ ars.c.currentArs.CanaryStep # NilAr
    /\ ars.c.currentArs.CanaryStep.phase = "Inconclusive"
    /\ ars.c.newStatus.canaryStep.message = "metric above threshold"
    /\ ars.c.newStatus.canaryStep # ars.pre.newStatus.canaryStep
    /\ ars.c.currentArs.CanaryBackground = NilAr
    /\ ars.c.newStatus.canaryBackground # NilArStatus
    /\ ars.c.newStatus.prePromotion # NilArStatus

\* ------------------------------------------------------ SetCurrentExperiment
Experiment(name) == [name |-> name]
NilEx == [name |-> Nil]

\* The part of the rolloutContext SetCurrentExperiment works on.
ExContext(currentEx, otherExs, currentExperiment) ==
    [currentEx |-> currentEx, otherExs |-> otherExs,
     newStatus |-> [currentExperiment |-> currentExperiment]]

\* append(s[:i], s[i+1:]...) with Go's zero-based i: the entry at i is dropped.
RemoveAt(s, i) == SubSeq(s, 1, i - 1) \o SubSeq(s, i + 1, Len(s))

\* A variant with a slip: the list is cut at the rescued entry.
SetCurrentExperiment_Truncate(c, ex) ==
    LET c1 == [c EXCEPT !.currentEx = ex,
                        !.newStatus.currentExperiment = ex.name]
        hits == {i \in 1..Len(c.otherExs) : c.otherExs[i].name = ex.name}
    IN  IF hits = {} THEN c1
        ELSE [c1 EXCEPT !.otherExs =
                 SubSeq(@, 1, (CHOOSE i \in hits : \A j \in hits : i <= j) - 1)]

\* The loop stops at the first entry with the experiment's name (break).
SetCurrentExperiment(c, ex) ==
    LET c1 == [c EXCEPT !.currentEx = ex,
                        !.newStatus.currentExperiment = ex.name]
        hits == {i \in 1..Len(c.otherExs) : c.otherExs[i].name = ex.name}
    IN  IF hits = {} THEN c1
        ELSE [c1 EXCEPT !.otherExs =
                 RemoveAt(@, CHOOSE i \in hits : \A j \in hits : i <= j)]

\* ----------------------------------------------- the experiment specification
ExNames == {"ex1", "ex2", "ex3"}

\* The experiments owned by the rollout, as listed from the informer: names
\* are unique within the namespace.
ExLists ==
    UNION {{[i \in 1..n |-> Experiment(f[i])] :
               f \in {g \in [1..n -> ExNames] :
                         \A i, j \in 1..n : i # j => g[i] # g[j]}} :
           n \in 0..Cardinality(ExNames)}

ExListed(list, name) == \E i \in 1..Len(list) : list[i].name = name

\* The classification at the start of a pass: the experiment the status names
\* is current, all others are delete candidates.
FilterCurrentExperiment(list, name) ==
    [current |-> IF ExListed(list, name) THEN Experiment(name) ELSE NilEx,
     other |-> SelectSeq(list, LAMBDA ex : ex.name # name)]

InitExperiment ==
    /\ \E list \in ExLists, name \in {""} \cup ExNames :
          /\ name # "" => ExListed(list, name)
          /\ exs = [at |-> "idle", list |-> list, status |-> name,
                    ex |-> NilEx, c |-> ExContext(NilEx, <<>>, name),
                    pre |-> ExContext(NilEx, <<>>, name)]
    /\ rollout = Unused /\ pass = Unused /\ ars = Unused /\ store = Unused
    /\ informer = Unused /\ rsctx = Unused /\ rb = Unused /\ rsets = Unused

\* A pass starts: the context is built and the experiments are classified.
BeginExperimentPass ==
    /\ exs.at = "idle"
    /\ \E f \in {FilterCurrentExperiment(exs.list, exs.status)} :
          \E c \in {ExContext(f.current, f.other, exs.status)} :
             exs' = [exs EXCEPT !.at = "classified", !.ex = NilEx,
                                !.c = c, !.pre = c]
    /\ UNCHANGED <<rollout, pass, ars, store, informer, rsctx, rb, rsets>>

\* The canary branch makes an experiment current: a listed one, or one it
\* has just created.
SetExperiment ==
    /\ exs.at = "classified"
    /\ \E name \in ExNames :
          exs' = [exs EXCEPT !.at = "set", !.ex = Experiment(name),
                             !.pre = exs.c,
                             !.c = SetCurrentExperiment(exs.c, Experiment(name))]
    /\ UNCHANGED <<rollout, pass, ars, store, informer, rsctx, rb, rsets>>

\* The pass ends: the status is persisted, a created experiment is listed,
\* the delete candidates are deleted.
EndExperimentPass ==
    /\ exs.at \in {"classified", "set"}
    /\ exs' = [exs EXCEPT
          !.at = "idle",
          !.status = exs.c.newStatus.currentExperiment,
          !.list = LET kept == SelectSeq(exs.list,
                          LAMBDA ex : \A i \in 1..Len(exs.c.otherExs) :
                                         exs.c.otherExs[i].name # ex.name)
                   IN  IF exs.ex = NilEx \/ ExListed(kept, exs.ex.name)
                       THEN kept ELSE Append(kept, exs.ex)]
    /\ UNCHANGED <<rollout, pass, ars, store, informer, rsctx, rb, rsets>>

\* Another owner's controller or the user creates an experiment for the
\* rollout between passes.
CreateExperiment ==
    /\ exs.at = "idle"
    /\ \E name \in ExNames :
          /\ ~ExListed(exs.list, name)
          /\ exs' = [exs EXCEPT !.list = Append(@, Experiment(name))]
    /\ UNCHANGED <<rollout, pass, ars, store, informer, rsctx, rb, rsets>>

NextExperiment ==
    BeginExperimentPass \/ SetExperiment \/ EndExperimentPass
    \/ CreateExperiment

SpecExperiment == InitExperiment /\ [][NextExperiment]_vars

\* ------------------------------------------------------ experiment properties
\* C15: after SetCurrentExperiment(ex) the current experiment is ex, the
\* status records ex's name, no entry of the other list has ex's name, and
\* every entry with another name is still in the list, in the order it had;
\* when ex was not in the list, the list is unchanged.
C15_RescuedFromOther ==
    exs.at = "set" =>
       /\ exs.c.currentEx = exs.ex
       /\ exs.c.newStatus.currentExperiment = exs.ex.name
       /\ \A i \in 1..Len(exs.c.otherExs) : exs.c.otherExs[i].name # exs.ex.name
       /\ exs.c.otherExs =
             SelectSeq(exs.pre.otherExs, LAMBDA ex : ex.name # exs.ex.name)
       /\ ~ExListed(exs.pre.otherExs, exs.ex.name) =>
             exs.c.otherExs = exs.pre.otherExs

C15_Witness ==
    /\ exs.at = "set"
    /\ Len(exs.pre.otherExs) = 3
    /\ exs.pre.otherExs[2] = exs.ex
    /\ exs.c.otherExs = <<exs.pre.otherExs[1], exs.pre.otherExs[3]>>
    /\ exs.c.currentEx = exs.ex

\* ------------------------------------------------- the replica-set classifier
\* A replica set as the classifier sees it: its name, the hash of its pod
\* template, its creation time.  The nil *ReplicaSet.
ClassifiedRS(name, hash, created) ==
    [name |-> name, hash |-> hash, created |-> created]
NilCRS == [name |-> Nil, hash |-> Nil, created |-> 0]

\* One scan of the list: of the replica sets with the hash, the most
\* recently created one.
RECURSIVE Latest(_, _, _)
Latest(all, hash, best) ==
    IF all = <<>> THEN best
    ELSE Latest(Tail(all), hash,
                IF /\ Head(all).hash = hash
                   /\ (best = NilCRS \/ Head(all).created > best.created)
                THEN Head(all) ELSE best)

\* A variant with a slip: the first replica set of the list with the hash.
ReplicaSetByHash_FirstListed(all, hash) ==
    IF \E i \in 1..Len(all) : all[i].hash = hash
    THEN all[CHOOSE i \in 1..Len(all) :
                /\ all[i].hash = hash
                /\ \A j \in 1..Len(all) : all[j].hash = hash => i <= j]
    ELSE NilCRS

\* The replica set a template hash refers to, nil when none has it.
ReplicaSetByHash(all, hash) == Latest(all, hash, NilCRS)

\* A variant with a slip: other is computed from all, not from older.
Classify_OtherFromAll(all, specHash, stableHash) ==
    LET new == ReplicaSetByHash(all, specHash)
        stable == IF stableHash = "" THEN NilCRS
                  ELSE ReplicaSetByHash(all, stableHash)
    IN  [new |-> new, stable |-> stable,
         older |-> SelectSeq(all, LAMBDA rs : rs # new),
         other |-> SelectSeq(all, LAMBDA rs : rs # stable),
         anomaly |-> Cardinality({i \in 1..Len(all) : all[i].hash = specHash}) > 1]

\* new: the replica set with the current spec's hash, the most recently
\* created one when several match (a logged anomaly); stable: the replica
\* set the status's stable hash refers to, nil before the first promotion;
\* older = all - new; other = older - stable.
Classify(all, specHash, stableHash) ==
    LET new == ReplicaSetByHash(all, specHash)
        stable == IF stableHash = "" THEN NilCRS
                  ELSE ReplicaSetByHash(all, stableHash)
        older == SelectSeq(all, LAMBDA rs : rs # new)
    IN  [new |-> new, stable |-> stable, older |-> older,
         other |-> SelectSeq(older, LAMBDA rs : rs # stable),
         anomaly |-> Cardinality({i \in 1..Len(all) : all[i].hash = specHash}) > 1]

\* ---------------------------------------------- the classifier specification
RSNames == <<"rs-a", "rs-b", "rs-c">>
RSHashes == {"h1", "h2"}
SpecHashes == RSHashes \cup {"h3"}

\* The orderings of a set of replica sets in a list.
Orderings(S) ==
    {f \in [1..Cardinality(S) -> S] :
        \A i, j \in 1..Cardinality(S) : i # j => f[i] # f[j]}

\* The replica sets a rollout can own: distinct names, each created at its
\* own time, any hash each; listed in any order.
RSLists ==
    UNION {UNION {Orderings({ClassifiedRS(RSNames[i], h[i], i) : i \in I}) :
                     h \in [I -> RSHashes]} :
           I \in SUBSET (1..Len(RSNames))}

NoClassification ==
    [new |-> NilCRS, stable |-> NilCRS, older |-> <<>>, other |-> <<>>,
     anomaly |-> FALSE]

InitClassify ==
    /\ \E all \in RSLists, specHash \in SpecHashes,
          stableHash \in {""} \cup SpecHashes :
          rsets = [at |-> "idle", all |-> all, specHash |-> specHash,
                   stableHash |-> stableHash, cls |-> NoClassification]
    /\ rollout = Unused /\ pass = Unused /\ ars = Unused /\ store = Unused
    /\ informer = Unused /\ rsctx = Unused /\ rb = Unused /\ exs = Unused

\* A pass lists the replica sets and classifies them.
ClassifyReplicaSets ==
    /\ rsets.at = "idle"
    /\ rsets' = [rsets EXCEPT
          !.at = "classified",
          !.cls = Classify(rsets.all, rsets.specHash, rsets.stableHash)]
    /\ UNCHANGED <<rollout, pass, ars, store, informer, rsctx, rb, exs>>

\* The pass promotes the new replica set: the status's stable hash becomes
\* the current spec's hash.
Promote ==
    /\ rsets.at = "classified"
    /\ rsets.cls.new # NilCRS
    /\ rsets.stableHash # rsets.specHash
    /\ rsets' = [rsets EXCEPT !.at = "idle", !.cls = NoClassification,
                              !.stableHash = rsets.specHash]
    /\ UNCHANGED <<rollout, pass, ars, store, informer, rsctx, rb, exs>>

\* The pass ends; nothing of the classification is kept.
EndClassifyPass ==
    /\ rsets.at = "classified"
    /\ rsets' = [rsets EXCEPT !.at = "idle", !.cls = NoClassification]
    /\ UNCHANGED <<rollout, pass, ars, store, informer, rsctx, rb, exs>>

\* The user edits the pod template between passes.
EditTemplate ==
    /\ rsets.at = "idle"
    /\ \E h \in SpecHashes \ {rsets.specHash} :
          rsets' = [rsets EXCEPT !.specHash = h]
    /\ UNCHANGED <<rollout, pass, ars, store, informer, rsctx, rb, exs>>

\* The next listing returns the replica sets in another order.
Relist ==
    /\ rsets.at = "idle"
    /\ \E all \in Orderings(Range(rsets.all)) \ {rsets.all} :
          rsets' = [rsets EXCEPT !.all = all]
    /\ UNCHANGED <<rollout, pass, ars, store, informer, rsctx, rb, exs>>

NextClassify ==
    ClassifyReplicaSets \/ Promote \/ EndClassifyPass \/ EditTemplate
    \/ Relist

SpecClassify == InitClassify /\ [][NextClassify]_vars

\* ------------------------------------------------------ classifier properties
\* The replica sets of the list whose hash is the current spec's.
Matches == {rs \in Range(rsets.all) : rs.hash = rsets.specHash}

\* C12: at most one replica set is new and its hash is the current spec's
\* hash: with no match new is absent, with one match new is that match;
\* older = all minus new; other = older minus stable; so other holds neither
\* new nor stable, and stable is in older exactly when it differs from new.
C12_Partition ==
    rsets.at = "classified" =>
       LET cls == rsets.cls
       IN /\ (cls.new = NilCRS) <=> (Matches = {})
          /\ cls.new # NilCRS => cls.new \in Matches
          /\ Cardinality(Matches) = 1 => Matches = {cls.new}
          /\ Range(cls.older) = Range(rsets.all) \ {cls.new}
          /\ Len(cls.older) = Cardinality(Range(cls.older))
          /\ Range(cls.other) = Range(cls.older) \ {cls.stable}
          /\ Len(cls.other) = Cardinality(Range(cls.other))
          /\ cls.new \notin Range(cls.other)
          /\ cls.stable \notin Range(cls.other)
          /\ cls.stable # NilCRS =>
                /\ cls.stable \in Range(rsets.all)
                /\ (cls.stable \in Range(cls.older)) <=> (cls.stable # cls.new)

C12_Witness ==
    /\ rsets.at = "classified"
    /\ Cardinality(Matches) = 1
    /\ rsets.cls.new # NilCRS /\ rsets.cls.stable # NilCRS
    /\ rsets.cls.stable # rsets.cls.new
    /\ Len(rsets.cls.older) = 2 /\ Len(rsets.cls.other) = 1

\* C13: when more than one replica set matches the current spec's hash, the
\* classification completes: the most recently created match is new, every
\* other match is in other, the anomaly is noted, and every ordering of the
\* list gives the same new, stable, older and other.
C13_DuplicateNew ==
    (rsets.at = "classified" /\ Cardinality(Matches) > 1) =>
       LET cls == rsets.cls
       IN /\ cls.new \in Matches
          /\ \A rs \in Matches : rs.created <= cls.new.created
          /\ \A rs \in Matches \ {cls.new} : rs \in Range(cls.other)
          /\ cls.anomaly
          /\ \A all \in Orderings(Range(rsets.all)) :
                LET again == Classify(all, rsets.specHash, rsets.stableHash)
                IN /\ again.new = cls.new
                   /\ again.stable = cls.stable
                   /\ Range(again.older) = Range(cls.older)
                   /\ Range(again.other) = Range(cls.other)

C13_Witness ==
    /\ rsets.at = "classified"
    /\ Len(rsets.all) = 3 /\ Cardinality(Matches) = 3
    /\ rsets.cls.new = rsets.all[2]
    /\ rsets.cls.stable = rsets.cls.new
    /\ rsets.cls.other = <<rsets.all[1], rsets.all[3]>>

====
